---- MODULE Spec2Model ----
(***************************************************************************)
(* Model of src/utils/dataloader.py: SSMDataset and SSMDataModule.         *)
(*                                                                         *)
(* An array is a record [shape, rows]; rows is a sequence (1-based) of the *)
(* array's rows along the leading dimension.  Index values kept in         *)
(* rand_idx, order and the batches are 0-based as in the code, so row i of *)
(* an array a is a.rows[i + 1].                                            *)
(* dataset_percent is the dyadic fraction cfg.dataset_percent / PercentDen;*)
(* for the small sample counts used here the float product of line 47 is   *)
(* exact, so int(n * p) is the truncated quotient.                         *)
(***************************************************************************)
EXTENDS Integers, Sequences, FiniteSets, TLC

\* ---------------------------------------------------------------- bounds
MaxN == 2
PercentBits == 2
MaxBatch == 2
MaxSteps == 2
TimeDim == 2

PercentDen == 2 ^ PercentBits

\* ------------------------------------------------------------- variables
VARIABLES
    cfg,         \* self.cfg: dataset_percent (numerator), batch_size, num_steps
    accessor,    \* the method the caller invoked last
    mode,        \* make_loader argument
    evaluation,  \* make_loader argument
    shuffle,     \* make_loader argument
    npzfile,     \* the archive read by the last make_loader
    rand_idx,    \* the subsample index sequence of the last make_loader
    dataset,     \* the SSMDataset built by the last make_loader
    dataloader,  \* the DataLoader returned by the last make_loader
    err,         \* the exception raised by the last call, or "none"
    pc,          \* position of the consumer of the iterator
    order,       \* index list fixed by the sampler when a pass starts
    ndrawn,      \* number of indices the sampler has handed out in the pass
    batch,       \* the batch yielded last in the current pass
    nbatches,    \* number of batches yielded so far in the current pass
    restarted    \* the current pass was started after an exhausted pass

vars == <<cfg, accessor, mode, evaluation, shuffle, npzfile, rand_idx, dataset,
          dataloader, err, pc, order, ndrawn, batch, nbatches, restarted>>

None == [none |-> TRUE]

\* ------------------------------------------------------- numeric helpers
\* numpy astype(np.float32) on an integer value below 2^25 in magnitude:
\* integers up to 2^24 are exact, above that the spacing is 2 (ties to even).
AsFloat32(x) ==
    LET a == IF x < 0 THEN -x ELSE x
        r == IF a <= 16777216 THEN a
             ELSE IF a % 2 = 0 THEN a
             ELSE IF (a + 1) % 4 = 0 THEN a + 1 ELSE a - 1
    IN IF x < 0 THEN -r ELSE r

\* numpy astype(np.int16): wraps modulo 2^16 into [-2^15, 2^15)
AsInt16(x) == ((x + 32768) % 65536) - 32768

\* Python int() of the quotient num / den (den > 0): truncation toward zero
IntTrunc(num, den) == IF num >= 0 THEN num \div den ELSE -((-num) \div den)

\* --------------------------------------------------------------- arrays
Arr(shape, rows) == [shape |-> shape, rows |-> rows]

\* fancy indexing a[idx] along the leading dimension
Take(a, idx) ==
    Arr(<<Len(idx)>> \o Tail(a.shape), [j \in 1..Len(idx) |-> a.rows[idx[j] + 1]])

\* np.zeros(shape) for a 3-dimensional shape
Zeros(shape) ==
    Arr(shape, [i \in 1..shape[1] |-> [t \in 1..shape[2] |-> [c \in 1..shape[3] |-> 0]]])

\* a.astype(np.float32) for a 3-dimensional array
AsTypeFloat32(a) ==
    Arr(a.shape, [i \in 1..Len(a.rows) |->
                    [t \in 1..Len(a.rows[i]) |->
                       [c \in 1..Len(a.rows[i][t]) |-> AsFloat32(a.rows[i][t][c])]]])

\* a.astype(np.int16) for a 1-dimensional array
AsTypeInt16(a) == Arr(a.shape, [i \in 1..Len(a.rows) |-> AsInt16(a.rows[i])])

Min(a, b) == IF a < b THEN a ELSE b

\* a[:, :, :2]
FirstTwoChannels(a) ==
    Arr(<<a.shape[1], a.shape[2], Min(a.shape[3], 2)>>,
        [i \in 1..Len(a.rows) |->
           [t \in 1..Len(a.rows[i]) |-> SubSeq(a.rows[i][t], 1, Min(Len(a.rows[i][t]), 2))]])

\* ------------------------------------------------------------- archives
AllKeys == {"image", "label", "state", "control"}

\* The content of data/<dataset>/<mode>.npz: n samples, the given keys.
\* Rows differ from one another in every array; one image value is not
\* representable in float32 and the labels cross the int16 range.
ArchiveArray(k, n) ==
    CASE k = "image" ->
           Arr(<<n, TimeDim, 1>>,
               [i \in 1..n |-> [t \in 1..TimeDim |-> <<16777216 + i + 10 * t>>]])
      [] k = "label" ->
           Arr(<<n>>, [i \in 1..n |-> 32766 + i])
      [] k = "state" ->
           Arr(<<n, TimeDim, 3>>,
               [i \in 1..n |-> [t \in 1..TimeDim |-> <<i, t, 9>>]])
      [] k = "control" ->
           Arr(<<n, TimeDim, 2>>,
               [i \in 1..n |-> [t \in 1..TimeDim |-> <<100 + i, 200 + t>>]])

Archive(n, keys) == [exists |-> TRUE, arrays |-> [k \in keys |-> ArchiveArray(k, n)]]

NoFile == [exists |-> FALSE, arrays |-> <<>>]

Files ==
    {NoFile} \cup
    {Archive(n, ks) : n \in 0..MaxN,
                      ks \in {AllKeys, AllKeys \ {"control"}, AllKeys \ {"label"}}}

\* ------------------------------------------------------------ SSMDataset
SSMDataset(images, labels, states, controls) ==
    [images |-> images, labels |-> labels, states |-> states, controls |-> controls]

\* SSMDataset.__len__
len(ds) == ds.images.shape[1]

\* SSMDataset.__getitem__: (index, image, state, control, label)
getitem(ds, idx) ==
    <<<<AsFloat32(idx)>>, ds.images.rows[idx + 1], ds.states.rows[idx + 1],
      ds.controls.rows[idx + 1], ds.labels.rows[idx + 1]>>

\* the DataLoader's default collation: a sequence of samples becomes five
\* parallel tensors
Collate(samples) == [f \in 1..5 |-> [i \in 1..Len(samples) |-> samples[i][f]]]

\* ----------------------------------------------------------- make_loader
Failure(exc) ==
    [raised |-> exc, rand_idx |-> <<>>, dataset |-> None, dataloader |-> None]

Returned(idx, ds, dl) ==
    [raised |-> "none", rand_idx |-> idx, dataset |-> ds, dataloader |-> dl]

\* LoadControl with the dummy array shaped by the sample count twice
LoadControl_WrongShape(arrays, images) ==
    IF "control" \in DOMAIN arrays
    THEN arrays["control"]
    ELSE Zeros(<<images.shape[1], images.shape[1], 1>>)

\* the control array of the archive, or the dummy one
LoadControl(arrays, images) ==
    IF "control" \in DOMAIN arrays
    THEN arrays["control"]
    ELSE Zeros(<<images.shape[1], images.shape[2], 1>>)

\* SubsampleCount rounding to the nearest integer instead of truncating
SubsampleCount_Rounded(n, percent) ==
    IntTrunc(2 * n * percent + PercentDen, 2 * PercentDen)

\* size = int(images.shape[0] * self.cfg.dataset_percent)
SubsampleCount(n, percent) == IntTrunc(n * percent, PercentDen)

InjectiveSeqs(n, k) ==
    {s \in [1..k -> 0..(n - 1)] : \A i, j \in 1..k : i # j => s[i] # s[j]}

\* ChoiceOutcomes drawing with replacement
ChoiceOutcomes_WithReplacement(n, size) ==
    IF size < 0 \/ (n = 0 /\ size > 0)
    THEN {[raised |-> "ValueError", idx |-> <<>>]}
    ELSE {[raised |-> "none", idx |-> s] : s \in [1..size -> 0..(n - 1)]}

\* np.random.choice(range(n), size=size, replace=False): the exception it
\* raises, or one of the index sequences it can return.  Over an empty
\* population with size 0 the returned empty array has the dtype of
\* np.array(range(0)), which the indexing of line 48 accepts or rejects
\* depending on the numpy build.
ChoiceOutcomes(n, size) ==
    IF size < 0 \/ size > n
    THEN {[raised |-> "ValueError", idx |-> <<>>]}
    ELSE IF n = 0
    THEN {[raised |-> "IndexError", idx |-> <<>>], [raised |-> "none", idx |-> <<>>]}
    ELSE {[raised |-> "none", idx |-> s] : s \in InjectiveSeqs(n, size)}

\* Subsample with the labels selected by the index sequence reversed
Subsample_LabelsPermuted(images, labels, states, controls, idx) ==
    SSMDataset(Take(images, idx),
               Take(labels, [j \in 1..Len(idx) |-> idx[Len(idx) + 1 - j]]),
               Take(states, idx), Take(controls, idx))

\* lines 48-51 and 60: the same index sequence applied to the four arrays
Subsample(images, labels, states, controls, idx) ==
    SSMDataset(Take(images, idx), Take(labels, idx), Take(states, idx),
               Take(controls, idx))

\* IsTrainingSetting without the test of `evaluation`
IsTrainingSetting_IgnoresEvaluation(m, e) == m = "train"

\* line 63
IsTrainingSetting(m, e) == m = "train" /\ e = FALSE

\* NumSamples without the factor batch_size
NumSamples_StepsOnly(c) == c.num_steps

\* line 64: num_samples of the RandomSampler
NumSamples(c) == c.num_steps * c.batch_size

\* lines 64-65: RandomSampler(replacement=True, num_samples) under a
\* DataLoader with drop_last=True
IterativeLoader(ds, c) ==
    [sampler |-> "RandomSampler", replacement |-> TRUE,
     num_samples |-> NumSamples(c), batch_size |-> c.batch_size, drop_last |-> TRUE]

\* ShuffleSampler ignoring the flag
ShuffleSampler_Always(s) == "RandomSampler"

\* the sampler DataLoader(shuffle=...) picks
ShuffleSampler(s) == IF s THEN "RandomSampler" ELSE "SequentialSampler"

\* NormalLoader dropping a trailing partial batch
NormalLoader_DropLast(ds, c, s) ==
    [sampler |-> ShuffleSampler(s), replacement |-> FALSE,
     num_samples |-> len(ds), batch_size |-> c.batch_size, drop_last |-> TRUE]

\* line 69: DataLoader(dataset, batch_size, shuffle), drop_last defaults to False
NormalLoader(ds, c, s) ==
    [sampler |-> ShuffleSampler(s), replacement |-> FALSE,
     num_samples |-> len(ds), batch_size |-> c.batch_size, drop_last |-> FALSE]

\* lines 62-70.  RandomSampler rejects num_samples <= 0 when it is built (for
\* shuffle=True over an empty dataset that is its own length 0, which torch
\* builds reject or accept depending on the version); the DataLoader's
\* BatchSampler rejects batch_size <= 0.
LoaderOutcomes(idx, ds, m, e, s, c) ==
    IF IsTrainingSetting(m, e)
    THEN IF NumSamples(c) <= 0 \/ c.batch_size <= 0
         THEN {Failure("ValueError")}
         ELSE {Returned(idx, ds, IterativeLoader(ds, c))}
    ELSE IF c.batch_size <= 0
         THEN {Failure("ValueError")}
         ELSE {Returned(idx, ds, NormalLoader(ds, c, s))}
              \cup (IF s /\ len(ds) = 0 THEN {Failure("ValueError")} ELSE {})

\* lines 36-70: every result make_loader can produce on the archive `file`
MakeLoaderOutcomes(file, m, e, s, c) ==
    IF ~file.exists
    THEN {Failure("FileNotFoundError")}
    ELSE IF ~({"image", "label", "state"} \subseteq DOMAIN file.arrays)
    THEN {Failure("KeyError")}
    ELSE LET images == AsTypeFloat32(file.arrays["image"])
             labels == AsTypeInt16(file.arrays["label"])
             states == FirstTwoChannels(AsTypeFloat32(file.arrays["state"]))
             controls == LoadControl(file.arrays, images)
             n == images.shape[1]
         IN UNION {IF ch.raised # "none"
                   THEN {Failure(ch.raised)}
                   ELSE LoaderOutcomes(ch.idx,
                            Subsample(images, labels, states, controls, ch.idx),
                            m, e, s, c)
                   : ch \in ChoiceOutcomes(n, SubsampleCount(n, c.dataset_percent))}

Splits == {"train", "val", "test"}

\* Every call loads afresh and owns its arrays, so the model follows one
\* loader at a time: the caller holds no loader when it calls (see Release).
make_loader(acc, m, e, s) ==
    /\ pc = "init"
    /\ \E file \in Files :
       \E out \in MakeLoaderOutcomes(file, m, e, s, cfg) :
        /\ accessor' = acc
        /\ mode' = m
        /\ evaluation' = e
        /\ shuffle' = s
        /\ npzfile' = file
        /\ rand_idx' = out.rand_idx
        /\ dataset' = out.dataset
        /\ dataloader' = out.dataloader
        /\ err' = out.raised
        /\ pc' = IF out.raised = "none" THEN "ready" ELSE "failed"
        /\ order' = <<>>
        /\ ndrawn' = 0
        /\ batch' = <<>>
        /\ nbatches' = 0
        /\ restarted' = FALSE
        /\ UNCHANGED cfg

\* a direct call of make_loader with arguments of the caller's choice
call_make_loader ==
    \E m \in Splits, e \in BOOLEAN, s \in BOOLEAN : make_loader("make_loader", m, e, s)

train_dataloader == make_loader("train_dataloader", "train", FALSE, TRUE)

evaluate_train_dataloader == make_loader("evaluate_train_dataloader", "train", TRUE, FALSE)

val_dataloader == make_loader("val_dataloader", "val", FALSE, FALSE)

test_dataloader == make_loader("test_dataloader", "test", FALSE, FALSE)

\* ------------------------------------------------------------- iteration
RandPerms(n) == InjectiveSeqs(n, n)

\* iter(sampler): SequentialSampler fixes range(n), RandomSampler without
\* replacement fixes a random permutation, RandomSampler with replacement
\* draws its indices as the pass goes
SamplerOrders(dl) ==
    IF dl.replacement THEN {<<>>}
    ELSE IF dl.sampler = "SequentialSampler"
    THEN {[i \in 1..dl.num_samples |-> i - 1]}
    ELSE RandPerms(dl.num_samples)

\* NextBatchSize needing more than a full batch of indices left
NextBatchSize_OffByOne(remaining, batch_size, drop_last) ==
    IF remaining > batch_size THEN batch_size
    ELSE IF drop_last THEN 0 ELSE remaining

\* BatchSampler: the size of the next batch when `remaining` indices are
\* left in the sampler, 0 when the pass is over
NextBatchSize(remaining, batch_size, drop_last) ==
    IF remaining >= batch_size THEN batch_size
    ELSE IF drop_last THEN 0 ELSE remaining

Remaining == dataloader.num_samples - ndrawn

\* iter(dataloader): start a pass over a loader that is not being iterated
Iter ==
    /\ pc \in {"ready", "exhausted"}
    /\ \E o \in SamplerOrders(dataloader) : order' = o
    /\ ndrawn' = 0
    /\ batch' = <<>>
    /\ nbatches' = 0
    /\ restarted' = (pc = "exhausted")
    /\ pc' = "iterating"
    /\ UNCHANGED <<cfg, accessor, mode, evaluation, shuffle, npzfile, rand_idx,
                   dataset, dataloader, err>>

Yield(idxs) ==
    /\ batch' = Collate([i \in 1..Len(idxs) |-> getitem(dataset, idxs[i])])
    /\ ndrawn' = ndrawn + Len(idxs)
    /\ nbatches' = nbatches + 1
    /\ UNCHANGED <<cfg, accessor, mode, evaluation, shuffle, npzfile, rand_idx,
                   dataset, dataloader, err, pc, order, restarted>>

\* next(): the next batch of a pass
NextBatch ==
    /\ pc = "iterating"
    /\ LET size == NextBatchSize(Remaining, dataloader.batch_size, dataloader.drop_last)
       IN /\ size > 0
          /\ IF dataloader.replacement
             THEN /\ len(dataset) > 0
                  /\ \E idxs \in [1..size -> 0..(len(dataset) - 1)] : Yield(idxs)
             ELSE Yield(SubSeq(order, ndrawn + 1, ndrawn + size))

\* next(): drawing with replacement from an empty dataset raises
\* (torch.randint with high = 0)
DrawFails ==
    /\ pc = "iterating"
    /\ dataloader.replacement
    /\ NextBatchSize(Remaining, dataloader.batch_size, dataloader.drop_last) > 0
    /\ len(dataset) = 0
    /\ pc' = "error"
    /\ err' = "RuntimeError"
    /\ UNCHANGED <<cfg, accessor, mode, evaluation, shuffle, npzfile, rand_idx,
                   dataset, dataloader, order, ndrawn, batch, nbatches,
                   restarted>>

\* next(): the pass is over
StopIteration ==
    /\ pc = "iterating"
    /\ NextBatchSize(Remaining, dataloader.batch_size, dataloader.drop_last) = 0
    /\ pc' = "exhausted"
    /\ UNCHANGED <<cfg, accessor, mode, evaluation, shuffle, npzfile, rand_idx,
                   dataset, dataloader, err, order, ndrawn, batch,
                   nbatches, restarted>>

\* the caller drops the loader (or the exception) of the last call and is
\* free to call an accessor again
Release ==
    /\ pc \in {"failed", "ready", "exhausted", "error"}
    /\ accessor' = "none"
    /\ mode' = "none"
    /\ evaluation' = FALSE
    /\ shuffle' = FALSE
    /\ npzfile' = NoFile
    /\ rand_idx' = <<>>
    /\ dataset' = None
    /\ dataloader' = None
    /\ err' = "none"
    /\ pc' = "init"
    /\ order' = <<>>
    /\ ndrawn' = 0
    /\ batch' = <<>>
    /\ nbatches' = 0
    /\ restarted' = FALSE
    /\ UNCHANGED cfg

\* --------------------------------------------------------- specification
ValidConfigs ==
    [dataset_percent : 1..PercentDen, batch_size : 1..MaxBatch, num_steps : 1..MaxSteps]

AnyConfigs ==
    [dataset_percent : (-1)..(PercentDen + 1), batch_size : (-1)..MaxBatch,
     num_steps : (-1)..MaxSteps]

\* SSMDataModule.__init__ with a configuration out of `configs`
InitWith(configs) ==
    /\ cfg \in configs
    /\ accessor = "none"
    /\ mode = "none"
    /\ evaluation = FALSE
    /\ shuffle = FALSE
    /\ npzfile = NoFile
    /\ rand_idx = <<>>
    /\ dataset = None
    /\ dataloader = None
    /\ err = "none"
    /\ pc = "init"
    /\ order = <<>>
    /\ ndrawn = 0
    /\ batch = <<>>
    /\ nbatches = 0
    /\ restarted = FALSE

Init == InitWith(ValidConfigs)

InitAnyCfg == InitWith(AnyConfigs)

Next ==
    \/ call_make_loader
    \/ train_dataloader
    \/ evaluate_train_dataloader
    \/ val_dataloader
    \/ test_dataloader
    \/ Iter
    \/ NextBatch
    \/ DrawFails
    \/ StopIteration
    \/ Release

Spec == Init /\ [][Next]_vars

SpecAnyCfg == InitAnyCfg /\ [][Next]_vars

\* ------------------------------------------------------------ properties
\* make_loader returned a DataLoader that the caller still holds
Loaded == pc \in {"ready", "iterating", "exhausted", "error"}

\* the loader was built for the training setting (resampling policy asked for)
TrainCall == Loaded /\ mode = "train" /\ evaluation = FALSE

\* the loader was built for any other setting (bounded policy asked for)
BoundedCall == Loaded /\ ~(mode = "train" /\ evaluation = FALSE)

ArchiveN == npzfile.arrays["image"].shape[1]

HasControl == "control" \in DOMAIN npzfile.arrays

\* the rows of the archive as make_loader reads them (lines 39-41)
ArchiveImage(r) == AsTypeFloat32(npzfile.arrays["image"]).rows[r + 1]
ArchiveLabel(r) == AsTypeInt16(npzfile.arrays["label"]).rows[r + 1]
ArchiveState(r) ==
    [t \in 1..TimeDim |->
       SubSeq(AsTypeFloat32(npzfile.arrays["state"]).rows[r + 1][t], 1, 2)]
ArchiveControl(r) ==
    IF HasControl THEN npzfile.arrays["control"].rows[r + 1]
    ELSE [t \in 1..TimeDim |-> <<0>>]

\* view positions of the samples of the batch yielded last
BatchLen == IF batch = <<>> THEN 0 ELSE Len(batch[1])

BatchIdx == [i \in 1..BatchLen |-> batch[1][i][1]]

CeilDiv(a, b) == (a + b - 1) \div b

\* C1: every position j of the view holds, in all four arrays, the rows of
\* archive row rand_idx[j], and every sample of a yielded batch combines the
\* fields of the one archive row its view position selects.
C1_RowAligned ==
    Loaded =>
      /\ \A j \in 1..len(dataset) :
           /\ dataset.images.rows[j] = ArchiveImage(rand_idx[j])
           /\ dataset.labels.rows[j] = ArchiveLabel(rand_idx[j])
           /\ dataset.states.rows[j] = ArchiveState(rand_idx[j])
           /\ dataset.controls.rows[j] = ArchiveControl(rand_idx[j])
      /\ \A i \in 1..BatchLen :
           LET r == rand_idx[BatchIdx[i] + 1]
           IN /\ batch[2][i] = ArchiveImage(r)
              /\ batch[3][i] = ArchiveState(r)
              /\ batch[4][i] = ArchiveControl(r)
              /\ batch[5][i] = ArchiveLabel(r)

\* a batch of two samples was yielded from a view whose index sequence is
\* not the identity
C1_Witness ==
    /\ Loaded
    /\ HasControl
    /\ BatchLen >= 2
    /\ \E j \in 1..Len(rand_idx) : rand_idx[j] # j - 1

\* C2 as stated: every pass of a loader built for the training setting ends
\* having yielded exactly num_steps batches of batch_size samples each.
C2_AlwaysNumSteps ==
    TrainCall =>
      /\ pc \in {"exhausted", "error"} => pc = "exhausted" /\ nbatches = cfg.num_steps
      /\ batch # <<>> => \A f \in 1..5 : Len(batch[f]) = cfg.batch_size

\* C2 amended: over a non-empty view, a pass of a loader built for the
\* training setting never raises, never yields more than num_steps batches,
\* ends only after exactly num_steps batches, and every batch has exactly
\* batch_size samples in each of its five tensors.
C2_NumStepsNonEmptyView ==
    (TrainCall /\ len(dataset) > 0) =>
      /\ pc # "error"
      /\ nbatches <= cfg.num_steps
      /\ ndrawn = nbatches * cfg.batch_size
      /\ pc = "exhausted" => nbatches = cfg.num_steps
      /\ batch # <<>> => \A f \in 1..5 : Len(batch[f]) = cfg.batch_size

\* a finished training pass that drew more samples than the view holds and
\* drew some view position more than once
C2_Witness ==
    /\ TrainCall
    /\ pc = "exhausted"
    /\ len(dataset) > 0
    /\ cfg.num_steps * cfg.batch_size > len(dataset)
    /\ nbatches = cfg.num_steps
    /\ nbatches >= 2
    /\ \E i, k \in 1..BatchLen : i # k /\ BatchIdx[i] = BatchIdx[k]

\* the view positions yielded so far in a pass of a sampler without
\* replacement: the part of the sampler's index list already handed out
Yielded == SubSeq(order, 1, ndrawn)

\* how often view position j was yielded so far in the pass
Visits(j) == Cardinality({i \in 1..Len(Yielded) : Yielded[i] = j})

\* C3: a pass of a loader built for any other setting never raises, visits
\* no view position twice and, once over, has visited each exactly once in
\* ceil(size / batch_size) batches; every batch is the next slice of the
\* positions; a batch shorter than batch_size is non-empty and is the last
\* one; with dataset_percent = 1.0 every archive row is yielded exactly once
\* per pass, whatever shuffle is.
C3_BoundedPass ==
    BoundedCall =>
      /\ pc # "error"
      /\ pc \in {"iterating", "exhausted"} =>
           /\ \A j \in 0..(len(dataset) - 1) : Visits(j) <= 1
           /\ \A i \in 1..Len(Yielded) : Yielded[i] \in 0..(len(dataset) - 1)
           /\ ndrawn <= len(dataset)
           /\ BatchIdx = SubSeq(Yielded, ndrawn - BatchLen + 1, ndrawn)
      /\ batch # <<>> =>
           /\ \A f \in 1..5 : Len(batch[f]) = BatchLen
           /\ BatchLen >= 1
           /\ BatchLen <= cfg.batch_size
           /\ BatchLen < cfg.batch_size => ndrawn = len(dataset)
           /\ ndrawn < len(dataset) => ndrawn = nbatches * cfg.batch_size
      /\ pc = "exhausted" =>
           /\ \A j \in 0..(len(dataset) - 1) : Visits(j) = 1
           /\ nbatches = CeilDiv(len(dataset), cfg.batch_size)
           /\ cfg.dataset_percent = PercentDen =>
                \A r \in 0..(ArchiveN - 1) :
                  Cardinality({i \in 1..Len(Yielded) :
                                 rand_idx[Yielded[i] + 1] = r}) = 1

\* a finished shuffled pass over the whole archive whose last batch is partial
C3_Witness ==
    /\ BoundedCall
    /\ shuffle
    /\ pc = "exhausted"
    /\ cfg.dataset_percent = PercentDen
    /\ ndrawn = ArchiveN
    /\ BatchLen >= 1
    /\ BatchLen < cfg.batch_size

Accessors ==
    {"train_dataloader", "evaluate_train_dataloader", "val_dataloader", "test_dataloader"}

\* C4: the returned loader resamples (RandomSampler with replacement,
\* num_steps * batch_size draws, drop_last) exactly when mode = "train" and
\* evaluation is False, and is bounded otherwise; train_dataloader is the
\* only accessor that returns a resampling loader, the other three return a
\* bounded loader with shuffle = False, evaluate_train_dataloader on the
\* train archive with evaluation = True.
C4_IterationPolicy ==
    /\ accessor = "train_dataloader" => mode = "train" /\ evaluation = FALSE
    /\ accessor = "evaluate_train_dataloader" =>
         mode = "train" /\ evaluation = TRUE /\ shuffle = FALSE
    /\ accessor = "val_dataloader" => mode = "val" /\ shuffle = FALSE
    /\ accessor = "test_dataloader" => mode = "test" /\ shuffle = FALSE
    /\ Loaded =>
         /\ dataloader.replacement <=> (mode = "train" /\ evaluation = FALSE)
         /\ dataloader.replacement =>
              /\ dataloader.sampler = "RandomSampler"
              /\ dataloader.drop_last
              /\ dataloader.num_samples = cfg.num_steps * cfg.batch_size
         /\ ~dataloader.replacement =>
              /\ ~dataloader.drop_last
              /\ dataloader.num_samples = len(dataset)
              /\ dataloader.sampler = "SequentialSampler" <=> shuffle = FALSE
         /\ accessor \in Accessors =>
              (dataloader.replacement <=> accessor = "train_dataloader")
         /\ accessor \in Accessors \ {"train_dataloader"} =>
              dataloader.sampler = "SequentialSampler"

\* evaluate_train_dataloader returned a loader over the train archive
C4_Witness ==
    /\ Loaded
    /\ accessor = "evaluate_train_dataloader"
    /\ mode = "train"
    /\ ~dataloader.replacement
    /\ len(dataset) >= 1

C6_WithoutReplacement ==
    Loaded =>
      /\ \A i, j \in 1..Len(rand_idx) : i # j => rand_idx[i] # rand_idx[j]
      /\ \A i \in 1..Len(rand_idx) : rand_idx[i] \in 0..(ArchiveN - 1)

\* a subsample of two or more rows, not in archive order
C6_Witness ==
    /\ Loaded
    /\ Len(rand_idx) >= 2
    /\ rand_idx[1] > rand_idx[2]

InvalidConfiguration ==
    \/ cfg.dataset_percent <= 0
    \/ cfg.dataset_percent > PercentDen
    \/ cfg.batch_size <= 0
    \/ cfg.num_steps <= 0

\* C7: with an invalid configuration every call of make_loader fails and
\* returns no loader.
C7_InvalidConfigurationFatal ==
    (InvalidConfiguration /\ pc # "init") =>
      /\ pc = "failed"
      /\ err # "none"
      /\ dataloader = None

\* the archive row indices of the samples of the batch yielded last
BatchRows == [i \in 1..BatchLen |-> rand_idx[BatchIdx[i] + 1]]

\* C8 as stated: a bounded pass with shuffle = False yields the samples in
\* increasing order of their archive row index.
C8_ArchiveOrder ==
    (BoundedCall /\ shuffle = FALSE /\ batch # <<>>) =>
      /\ \A i, k \in 1..BatchLen : i < k => BatchRows[i] < BatchRows[k]
      /\ \A i, k \in 1..Len(Yielded) :
           i < k => rand_idx[Yielded[i] + 1] < rand_idx[Yielded[k] + 1]

\* C8 amended: a bounded pass with shuffle = False yields the view positions
\* 0, 1, 2, ... in that order, that is the archive rows in the order of
\* rand_idx.
C8_ViewOrder ==
    (BoundedCall /\ shuffle = FALSE /\ batch # <<>>) =>
      /\ \A i \in 1..BatchLen : BatchIdx[i] = ndrawn - BatchLen + i - 1
      /\ \A i \in 1..BatchLen : BatchRows[i] = rand_idx[ndrawn - BatchLen + i]
      /\ \A i \in 1..Len(Yielded) : Yielded[i] = i - 1

\* the second batch of an unshuffled bounded pass over a view whose index
\* sequence is not increasing
C8_Witness ==
    /\ BoundedCall
    /\ shuffle = FALSE
    /\ nbatches >= 2
    /\ \E i \in 1..(Len(rand_idx) - 1) : rand_idx[i] > rand_idx[i + 1]

\* the number of batches of a full pass
FullPass ==
    IF dataloader.replacement THEN cfg.num_steps
    ELSE CeilDiv(len(dataset), cfg.batch_size)

\* C9 as stated: every pass, the first one and every later one, ends having
\* yielded the full number of batches.
C9_EveryPassFull ==
    (Loaded /\ pc \in {"exhausted", "error"}) =>
      pc = "exhausted" /\ nbatches = FullPass

\* C9 amended: unless it resamples from an empty view, a pass is finite
\* (every batch uses up indices of a finite supply, at most FullPass
\* batches), it ends having yielded the full number of batches, a new pass
\* can be started once it is exhausted and does the same, and passes leave
\* the archive, the index sequence, the view and the loader unchanged.
C9_FiniteRestartable ==
    /\ [](Loaded /\ ~(dataloader.replacement /\ len(dataset) = 0) =>
            /\ pc # "error"
            /\ nbatches <= FullPass
            /\ ndrawn <= dataloader.num_samples
            /\ pc = "exhausted" => nbatches = FullPass /\ ENABLED Iter)
    /\ [][(pc = "iterating" /\ pc' = "iterating") =>
            /\ ndrawn' > ndrawn
            /\ nbatches' = nbatches + 1]_vars
    /\ [][(Loaded /\ Loaded') =>
            UNCHANGED <<cfg, npzfile, rand_idx, dataset, dataloader>>]_vars

\* a pass started after an exhausted one is exhausted in turn
C9_Witness ==
    /\ Loaded
    /\ accessor \in Accessors
    /\ restarted
    /\ pc = "exhausted"
    /\ nbatches >= 2

\* C10: an archive without `control` never raises for the missing key; the
\* view's control array then has shape (subsample count, time_dim, 1) and
\* is all zero; with the key, the view's control rows are the archive's
\* control rows selected by rand_idx.
C10_Control ==
    /\ (pc = "failed" /\ npzfile.exists /\ ~HasControl) => err # "KeyError"
    /\ (Loaded /\ ~HasControl) =>
         /\ dataset.controls.shape =
              <<Len(rand_idx), npzfile.arrays["image"].shape[2], 1>>
         /\ Len(dataset.controls.rows) = Len(rand_idx)
         /\ \A j \in 1..Len(rand_idx) :
              /\ Len(dataset.controls.rows[j]) = npzfile.arrays["image"].shape[2]
              /\ \A t \in 1..Len(dataset.controls.rows[j]) :
                   dataset.controls.rows[j][t] = <<0>>
    /\ (Loaded /\ HasControl) =>
         /\ dataset.controls.shape =
              <<Len(rand_idx)>> \o Tail(npzfile.arrays["control"].shape)
         /\ Len(dataset.controls.rows) = Len(rand_idx)
         /\ \A j \in 1..Len(rand_idx) :
              dataset.controls.rows[j] = npzfile.arrays["control"].rows[rand_idx[j] + 1]

\* a batch yielded from a non-empty view of an archive without `control`
C10_Witness ==
    /\ Loaded
    /\ ~HasControl
    /\ Len(rand_idx) >= 2
    /\ BatchLen >= 1

====
